---- MODULE Spec2Model ----
(***************************************************************************)
(* PageRank (src/Pagerank/Pagerank.py): the transition model, the sampling *)
(* estimator and the iterative estimator.                                  *)
(*                                                                         *)
(* A corpus is a function from the pages 1..N to sets of pages; the order  *)
(* 1..N is the iteration order of the dictionary.  Real numbers are exact  *)
(* rationals: small ones are pairs <<numerator, denominator>> in lowest    *)
(* terms, the ranks of the iterative estimator are numerators of arbitrary *)
(* size over one common denominator.                                       *)
(***************************************************************************)
EXTENDS Integers, Sequences, FiniteSets, TLC

VARIABLES
    op,               \* the function being run
    pc,               \* where that function is: "call", "loop", "pass", "done",
                      \* "error" (an exception), "cut" (numbers beyond MaxLimbs)
    corpus,           \* argument: the link graph
    damping,          \* argument damping_factor, a rational
    page,             \* transition_model: argument page
    dist,             \* transition_model: the returned distribution
    n,                \* sample_pagerank: argument n
    i,                \* sample_pagerank: iterations of the for loop done
    corpus_page,      \* sample_pagerank: the current page
    sample_ranks,     \* sample_pagerank: the visit counters
    ranks,            \* sample_pagerank: the returned mapping
    den,              \* iterate_pagerank: common denominator of the ranks
    interate_rank,    \* iterate_pagerank: numerators of the ranks
    interate_changes  \* iterate_pagerank: numerators of the changes, or inf

vars == <<op, pc, corpus, damping, page, dist, n, i, corpus_page,
          sample_ranks, ranks, den, interate_rank, interate_changes>>

(***************************************************************************)
(* Bounds of the model.                                                    *)
(***************************************************************************)
MaxModelPages == 3    \* pages of a corpus given to transition_model
MaxWalkPages == 3     \* pages of a corpus given to sample_pagerank
MaxSamples == 3       \* largest n given to sample_pagerank
MaxPages == 4         \* pages of a corpus given to iterate_pagerank
MaxLinks == 4         \* links of a corpus given to iterate_pagerank
MaxLimbs == 20        \* a run of iterate_pagerank is cut when a number outgrows this
MaxArgPages == 2      \* pages of a corpus when the arguments may be invalid

(***************************************************************************)
(* Small rationals.                                                        *)
(***************************************************************************)
Abs(x) == IF x < 0 THEN -x ELSE x

RECURSIVE GCD(_, _)
GCD(a, b) == IF b = 0 THEN a ELSE GCD(b, a % b)

Rat(a, b) ==
    LET g == GCD(Abs(a), Abs(b))
        s == IF b < 0 THEN -1 ELSE 1
    IN  <<(s * a) \div g, (s * b) \div g>>

RAdd(x, y) == Rat(x[1] * y[2] + y[1] * x[2], x[2] * y[2])
RSub(x, y) == Rat(x[1] * y[2] - y[1] * x[2], x[2] * y[2])
RMul(x, y) == Rat(x[1] * y[1], x[2] * y[2])
RDivInt(x, k) == Rat(x[1], x[2] * k)
RLess(x, y) == x[1] * y[2] < y[1] * x[2]
RLeq(x, y) == x[1] * y[2] <= y[1] * x[2]
RZero == <<0, 1>>
ROne == <<1, 1>>

RECURSIVE RSumTo(_, _)
RSumTo(f, k) == IF k = 0 THEN RZero ELSE RAdd(RSumTo(f, k - 1), f[k])
RSum(f) == RSumTo(f, Cardinality(DOMAIN f))

(***************************************************************************)
(* Natural numbers of arbitrary size: sequences of limbs, least limb       *)
(* first, no leading zero limb; <<>> is 0.  Integers: a sign and a         *)
(* magnitude.                                                              *)
(***************************************************************************)
Base == 1000 * 1000

Limb(a, k) == IF k <= Len(a) THEN a[k] ELSE 0

RECURSIVE Trim(_)
Trim(a) == IF a = <<>> THEN a
           ELSE IF a[Len(a)] = 0 THEN Trim(SubSeq(a, 1, Len(a) - 1)) ELSE a

RECURSIVE NAddFrom(_, _, _, _)
NAddFrom(a, b, k, c) ==
    IF k > Len(a) /\ k > Len(b)
    THEN IF c = 0 THEN <<>> ELSE <<c>>
    ELSE LET s == Limb(a, k) + Limb(b, k) + c
         IN  <<s % Base>> \o NAddFrom(a, b, k + 1, s \div Base)
NAdd(a, b) == NAddFrom(a, b, 1, 0)

\* a - b for a >= b
RECURSIVE NSubFrom(_, _, _, _)
NSubFrom(a, b, k, c) ==
    IF k > Len(a) THEN <<>>
    ELSE LET s == a[k] - Limb(b, k) - c
         IN  IF s < 0 THEN <<s + Base>> \o NSubFrom(a, b, k + 1, 1)
                      ELSE <<s>> \o NSubFrom(a, b, k + 1, 0)
NSub(a, b) == Trim(NSubFrom(a, b, 1, 0))

RECURSIVE NLessFrom(_, _, _)
NLessFrom(a, b, k) ==
    IF k = 0 THEN FALSE
    ELSE IF a[k] # b[k] THEN a[k] < b[k] ELSE NLessFrom(a, b, k - 1)
NLess(a, b) ==
    IF Len(a) # Len(b) THEN Len(a) < Len(b) ELSE NLessFrom(a, b, Len(a))

\* a * m for a small m >= 0
RECURSIVE NMulFrom(_, _, _, _)
NMulFrom(a, m, k, c) ==
    IF k > Len(a)
    THEN IF c = 0 THEN <<>> ELSE <<c>>
    ELSE LET s == a[k] * m + c
         IN  <<s % Base>> \o NMulFrom(a, m, k + 1, s \div Base)
NMul(a, m) == IF m = 0 THEN <<>> ELSE NMulFrom(a, m, 1, 0)

\* a mod m and a div m for a small m > 0
RECURSIVE NModFrom(_, _, _, _)
NModFrom(a, m, k, r) ==
    IF k = 0 THEN r ELSE NModFrom(a, m, k - 1, (r * Base + a[k]) % m)
NMod(a, m) == NModFrom(a, m, Len(a), 0)

RECURSIVE NDivFrom(_, _, _, _)
NDivFrom(a, m, k, r) ==
    IF k = 0 THEN <<>>
    ELSE LET t == r * Base + a[k]
         IN  NDivFrom(a, m, k - 1, t % m) \o <<t \div m>>
NDiv(a, m) == Trim(NDivFrom(a, m, Len(a), 0))

NOne == <<1>>

Z(sign, mag) == [s |-> IF mag = <<>> THEN 1 ELSE sign, m |-> mag]
ZAdd(x, y) ==
    IF x.s = y.s THEN Z(x.s, NAdd(x.m, y.m))
    ELSE IF NLess(x.m, y.m) THEN Z(y.s, NSub(y.m, x.m))
    ELSE Z(x.s, NSub(x.m, y.m))
ZNeg(x) == Z(-x.s, x.m)
ZMul(x, m) == IF m < 0 THEN Z(-x.s, NMul(x.m, -m)) ELSE Z(x.s, NMul(x.m, m))
ZNat(a) == Z(1, a)

RECURSIVE ZSumTo(_, _)
ZSumTo(f, k) == IF k = 0 THEN ZNat(<<>>) ELSE ZAdd(ZSumTo(f, k - 1), f[k])
ZSum(f) == ZSumTo(f, Cardinality(DOMAIN f))

(***************************************************************************)
(* Inputs.                                                                 *)
(***************************************************************************)
Len0(c) == Cardinality(DOMAIN c)

\* crawl's result: no page links to itself, every link is a page of the corpus
Corpus(f) == [p \in DOMAIN f |-> {IF q < p THEN q ELSE q + 1 : q \in f[p]}]
Corpora(N) == {Corpus(f) : f \in [1..N -> SUBSET (1..(N - 1))]}

RECURSIVE LinksTo(_, _)
LinksTo(c, k) == IF k = 0 THEN 0 ELSE LinksTo(c, k - 1) + Cardinality(c[k])
Links(c) == LinksTo(c, Len0(c))

ValidDampings == {<<0, 1>>, <<1, 2>>, <<6, 7>>, <<1, 1>>}
IterDampings == {<<0, 1>>, <<6, 7>>, <<1, 1>>}
InvalidDampings == {<<-1, 2>>, <<3, 2>>}
ValidDamping(d) == RLeq(RZero, d) /\ RLeq(d, ROne)

(***************************************************************************)
(* transition_model                                                        *)
(***************************************************************************)
\* mutant: the extra share of a link is damping / N, not damping / L
transition_model_links_by_total(c, p, d) ==
    IF c[p] # {}
    THEN LET random_factor == RDivInt(RSub(ROne, d), Len0(c))
             links == RDivInt(d, Len0(c))
         IN  [q \in DOMAIN c |-> IF q \in c[p] THEN RAdd(random_factor, links)
                                                 ELSE random_factor]
    ELSE [q \in DOMAIN c |-> Rat(1, Len0(c))]

\* mutant: a page without links keeps the random jump only
transition_model_no_sink(c, p, d) ==
    LET random_factor == RDivInt(RSub(ROne, d), Len0(c))
        links == IF c[p] = {} THEN RZero ELSE RDivInt(d, Cardinality(c[p]))
    IN  [q \in DOMAIN c |-> IF q \in c[p] THEN RAdd(random_factor, links)
                                            ELSE random_factor]

transition_model(c, p, d) ==
    IF c[p] # {}
    THEN LET random_factor == RDivInt(RSub(ROne, d), Len0(c))
             links == RDivInt(d, Cardinality(c[p]))
         IN  [q \in DOMAIN c |-> IF q \in c[p] THEN RAdd(random_factor, links)
                                                 ELSE random_factor]
    ELSE [q \in DOMAIN c |-> Rat(1, Len0(c))]

NoDist == <<>>

InitTM ==
    /\ op = "transition_model"
    /\ pc = "call"
    /\ \E N \in 1..MaxModelPages : corpus \in Corpora(N)
    /\ damping \in ValidDampings
    /\ page = 0
    /\ dist = NoDist
    /\ n = 0 /\ i = 0 /\ corpus_page = 0
    /\ sample_ranks = <<>> /\ ranks = <<>>
    /\ den = <<>> /\ interate_rank = <<>> /\ interate_changes = <<>>

TransitionModel ==
    /\ op = "transition_model"
    /\ pc = "call"
    /\ \E p \in DOMAIN corpus :
          /\ page' = p
          /\ dist' = transition_model(corpus, p, damping)
    /\ pc' = "done"
    /\ UNCHANGED <<op, corpus, damping, n, i, corpus_page, sample_ranks, ranks,
                   den, interate_rank, interate_changes>>

NextTM == TransitionModel

SpecTM == InitTM /\ [][NextTM]_vars

(***************************************************************************)
(* iterate_pagerank                                                        *)
(*                                                                         *)
(* The rank of page q is interate_rank[q] / den and its recorded change is *)
(* interate_changes[q].m / den, or infinite.  A state of the loop is the   *)
(* record [den, rank, changes].                                            *)
(***************************************************************************)
ThresholdDen == 1000      \* the threshold 0.001 is 1 / ThresholdDen

Inf == [inf |-> TRUE, m |-> <<>>]
Fin(a) == [inf |-> FALSE, m |-> a]

RECURSIVE LCMTo(_)
LCMTo(k) == IF k <= 1 THEN 1 ELSE LET l == LCMTo(k - 1) IN (l * k) \div GCD(l, k)

\* every rank is rewritten over the denominator den * Scale when a page is updated
Scale(c, d) == d[2] * LCMTo(Len0(c))

\* mutant: a page without links stands for every other page
EffLinksNotSelf(c, q) == IF c[q] = {} THEN DOMAIN c \ {q} ELSE c[q]

\* `links` of the inner loop: a page without links stands for every page
EffLinks(c, q) == IF c[q] = {} THEN DOMAIN c ELSE c[q]

\* link_counter * LCMTo(N), summed over the pages 1..k
RECURSIVE LinkCounterTo(_, _, _, _)
LinkCounterTo(c, r, p, k) ==
    IF k = 0 THEN ZNat(<<>>)
    ELSE LET rest == LinkCounterTo(c, r, p, k - 1)
             links == EffLinks(c, k)
         IN  IF p \in links
             THEN ZAdd(rest, ZMul(r[k], LCMTo(Len0(c)) \div Cardinality(links)))
             ELSE rest

\* new_rank of page p from the ranks r / dn, as a numerator over dn * Scale
NewRank(c, d, dn, r, p) ==
    LET total == Len0(c)
        jump == ZMul(ZNat(dn), (d[2] - d[1]) * (LCMTo(total) \div total))
    IN  ZAdd(jump, ZMul(LinkCounterTo(c, r, p, total), d[1]))

ZAbsDiff(x, y) == ZAdd(x, ZNeg(y)).m

\* mutant: the new rank is compared but never stored
PageStepNoStore(c, d, st, p) ==
    LET K == Scale(c, d)
        nr == NewRank(c, d, st.den, st.rank, p)
    IN  [den |-> NMul(st.den, K),
         rank |-> [q \in DOMAIN c |-> ZMul(st.rank[q], K)],
         changes |-> [q \in DOMAIN c |->
                        IF q = p THEN Fin(ZAbsDiff(nr, ZMul(st.rank[p], K)))
                        ELSE IF st.changes[q].inf THEN Inf
                        ELSE Fin(NMul(st.changes[q].m, K))]]

\* the body of `for page in interate_rank.keys()` for one page
PageStep(c, d, st, p) ==
    LET K == Scale(c, d)
        nr == NewRank(c, d, st.den, st.rank, p)
    IN  [den |-> NMul(st.den, K),
         rank |-> [q \in DOMAIN c |-> IF q = p THEN nr ELSE ZMul(st.rank[q], K)],
         changes |-> [q \in DOMAIN c |->
                        IF q = p THEN Fin(ZAbsDiff(nr, ZMul(st.rank[p], K)))
                        ELSE IF st.changes[q].inf THEN Inf
                        ELSE Fin(NMul(st.changes[q].m, K))]]

\* the pages 1..k of one pass, in the order of the dictionary
RECURSIVE PassTo(_, _, _, _)
PassTo(c, d, st, k) ==
    IF k = 0 THEN st ELSE PageStep(c, d, PassTo(c, d, st, k - 1), k)

\* the same numbers over the least common denominator
Divisible(st, m) ==
    /\ NMod(st.den, m) = 0
    /\ \A q \in DOMAIN st.rank : NMod(st.rank[q].m, m) = 0
    /\ \A q \in DOMAIN st.changes : NMod(st.changes[q].m, m) = 0
DivAll(st, m) ==
    [den |-> NDiv(st.den, m),
     rank |-> [q \in DOMAIN st.rank |-> Z(st.rank[q].s, NDiv(st.rank[q].m, m))],
     changes |-> [q \in DOMAIN st.changes |->
                    IF st.changes[q].inf THEN Inf ELSE Fin(NDiv(st.changes[q].m, m))]]
RECURSIVE Reduce(_, _)
Reduce(st, m) == IF m > 1 /\ Divisible(st, m) THEN Reduce(DivAll(st, m), m) ELSE st
Lowest(st) == Reduce(Reduce(Reduce(Reduce(st, 2), 3), 5), 7)

Pass(c, d, st) == Lowest(Reduce(PassTo(c, d, st, Len0(c)), Scale(c, d)))

\* mutant: the threshold is 0.01
ExceedsHundredth(ch, dn) == ch.inf \/ NLess(dn, NMul(ch.m, 100))

\* mutant: the threshold is 0
ExceedsZero(ch, dn) == ch.inf \/ ch.m # <<>>

\* interate_changes > 0.001
Exceeds(ch, dn) == ch.inf \/ NLess(dn, NMul(ch.m, ThresholdDen))

\* mutant: all(...) in place of any(...)
UnconvergedAll(st) == \A q \in DOMAIN st.changes : Exceeds(st.changes[q], st.den)

\* any(interate_changes > 0.001 for interate_changes in interate_changes.values())
Unconverged(st) == {q \in DOMAIN st.changes : Exceeds(st.changes[q], st.den)} # {}

Fits(st) ==
    /\ Len(st.den) <= MaxLimbs
    /\ \A q \in DOMAIN st.rank : Len(st.rank[q].m) <= MaxLimbs

State == [den |-> den, rank |-> interate_rank, changes |-> interate_changes]

InitIter ==
    /\ op = "iterate_pagerank"
    /\ pc = "call"
    /\ \E N \in 1..MaxPages : \E f \in [1..N -> SUBSET (1..(N - 1))] :
          /\ LinksTo(f, N) <= MaxLinks
          /\ corpus = Corpus(f)
    /\ damping \in IterDampings
    /\ page = 0 /\ dist = NoDist
    /\ n = 0 /\ i = 0 /\ corpus_page = 0
    /\ sample_ranks = <<>> /\ ranks = <<>>
    /\ den = <<>> /\ interate_rank = <<>> /\ interate_changes = <<>>

IterStart ==
    /\ op = "iterate_pagerank"
    /\ pc = "call"
    /\ IF Len0(corpus) = 0
       THEN /\ pc' = "error"
            /\ UNCHANGED <<den, interate_rank, interate_changes>>
       ELSE /\ pc' = "loop"
            /\ den' = <<Len0(corpus)>>
            /\ interate_rank' = [q \in DOMAIN corpus |-> ZNat(NOne)]
            /\ interate_changes' = [q \in DOMAIN corpus |-> Inf]
    /\ UNCHANGED <<op, corpus, damping, page, dist, n, i, corpus_page,
                   sample_ranks, ranks>>

\* the test of the while loop holds: enter the body
IterEnter ==
    /\ op = "iterate_pagerank"
    /\ pc = "loop"
    /\ Unconverged(State)
    /\ pc' = "pass"
    /\ UNCHANGED <<op, corpus, damping, page, dist, n, i, corpus_page,
                   sample_ranks, ranks, den, interate_rank, interate_changes>>

\* the body of the while loop: one pass over the pages
IterPass ==
    /\ op = "iterate_pagerank"
    /\ pc = "pass"
    /\ Fits(State)
    /\ LET st == Pass(corpus, damping, State)
       IN  /\ den' = st.den
           /\ interate_rank' = st.rank
           /\ interate_changes' = st.changes
    /\ pc' = "loop"
    /\ UNCHANGED <<op, corpus, damping, page, dist, n, i, corpus_page,
                   sample_ranks, ranks>>

\* the test of the while loop fails: return interate_rank
IterReturn ==
    /\ op = "iterate_pagerank"
    /\ pc = "loop"
    /\ ~Unconverged(State)
    /\ pc' = "done"
    /\ UNCHANGED <<op, corpus, damping, page, dist, n, i, corpus_page,
                   sample_ranks, ranks, den, interate_rank, interate_changes>>

\* the model follows a run no further once its numbers outgrow MaxLimbs limbs
IterCut ==
    /\ op = "iterate_pagerank"
    /\ pc = "pass"
    /\ ~Fits(State)
    /\ pc' = "cut"
    /\ UNCHANGED <<op, corpus, damping, page, dist, n, i, corpus_page,
                   sample_ranks, ranks, den, interate_rank, interate_changes>>

NextIter == IterStart \/ IterEnter \/ IterPass \/ IterReturn \/ IterCut

SpecIter == InitIter /\ [][NextIter]_vars

(***************************************************************************)
(* sample_pagerank                                                         *)
(***************************************************************************)
\* accumulate(weights): the sum of the first k weights
RECURSIVE CumWeight(_, _)
CumWeight(w, k) == IF k = 0 THEN RZero ELSE RAdd(CumWeight(w, k - 1), w[k])

\* bisect(cum_weights, u, lo, hi), on 0-based indices
RECURSIVE Bisect(_, _, _, _)
Bisect(w, u, lo, hi) ==
    IF lo < hi
    THEN LET mid == (lo + hi) \div 2
         IN  IF RLess(u, CumWeight(w, mid + 1)) THEN Bisect(w, u, lo, mid)
                                                ELSE Bisect(w, u, mid + 1, hi)
    ELSE lo

\* random.choices(pages, weights): random() * total takes any value of
\* [0, total); the page found changes only where that value passes a
\* cumulative weight
Choices(w) ==
    LET N == Cardinality(DOMAIN w)
        total == CumWeight(w, N)
        points == {RZero} \cup {CumWeight(w, k) : k \in 1..N}
    IN  {Bisect(w, u, 0, N - 1) + 1 :
            u \in {x \in points : RLeq(RZero, x) /\ RLess(x, total)}}

InitSample ==
    /\ op = "sample_pagerank"
    /\ pc = "call"
    /\ \E N \in 1..MaxWalkPages : corpus \in Corpora(N)
    /\ damping \in ValidDampings
    /\ n \in 1..MaxSamples
    /\ page = 0 /\ dist = NoDist
    /\ i = 0 /\ corpus_page = 0
    /\ sample_ranks = <<>> /\ ranks = <<>>
    /\ den = <<>> /\ interate_rank = <<>> /\ interate_changes = <<>>

\* lines 89-94; random.choice raises IndexError on an empty list
SampleStart ==
    /\ op = "sample_pagerank"
    /\ pc = "call"
    /\ IF Len0(corpus) = 0
       THEN /\ pc' = "error"
            /\ UNCHANGED <<corpus_page, sample_ranks>>
       ELSE /\ pc' = "loop"
            /\ sample_ranks' = [q \in DOMAIN corpus |-> 0]
            /\ corpus_page' \in DOMAIN corpus
    /\ UNCHANGED <<op, corpus, damping, page, dist, n, i, ranks,
                   den, interate_rank, interate_changes>>

\* one iteration of `for i in (range(n - 1))`
SampleStep ==
    /\ op = "sample_pagerank"
    /\ pc = "loop"
    /\ i < n - 1
    /\ sample_ranks' = [sample_ranks EXCEPT ![corpus_page] = @ + 1]
    /\ corpus_page' \in Choices(transition_model(corpus, corpus_page, damping))
    /\ i' = i + 1
    /\ UNCHANGED <<op, pc, corpus, damping, page, dist, n, ranks,
                   den, interate_rank, interate_changes>>

\* lines 104-106; num_samples / n raises ZeroDivisionError for n = 0
SampleReturn ==
    /\ op = "sample_pagerank"
    /\ pc = "loop"
    /\ ~(i < n - 1)
    /\ IF n = 0
       THEN /\ pc' = "error"
            /\ UNCHANGED ranks
       ELSE /\ pc' = "done"
            /\ ranks' = [q \in DOMAIN corpus |-> Rat(sample_ranks[q], n)]
    /\ UNCHANGED <<op, corpus, damping, page, dist, n, i, corpus_page,
                   sample_ranks, den, interate_rank, interate_changes>>

NextSample == SampleStart \/ SampleStep \/ SampleReturn

SpecSample == InitSample /\ [][NextSample]_vars

(***************************************************************************)
(* Both estimators on arguments that may be invalid.                       *)
(***************************************************************************)
InitArgs ==
    /\ pc = "call"
    /\ \E N \in 0..MaxArgPages : corpus \in Corpora(N)
    /\ damping \in ValidDampings \cup InvalidDampings
    /\ \/ op = "sample_pagerank" /\ n \in -1..2
       \/ op = "iterate_pagerank" /\ n = 0
    /\ page = 0 /\ dist = NoDist
    /\ i = 0 /\ corpus_page = 0
    /\ sample_ranks = <<>> /\ ranks = <<>>
    /\ den = <<>> /\ interate_rank = <<>> /\ interate_changes = <<>>

NextArgs == NextSample \/ NextIter

SpecArgs == InitArgs /\ [][NextArgs]_vars

\* iterate_pagerank runs on until it returns: every step of NextIter moves pc,
\* and a step is possible wherever pc is "call", "loop" or "pass"
Advance ==
    /\ pc \in {"call", "loop", "pass"}
    /\ pc' \in {"loop", "pass", "done", "error", "cut"}

FairSpecIter == SpecIter /\ WF_pc(Advance)

(***************************************************************************)
(* Properties.                                                             *)
(***************************************************************************)
Returned(f) == op = f /\ pc = "done"

\* C1: transition_model returns one entry per page of the corpus, every value
\* is non-negative and the values sum to 1.
C1_Distribution ==
    Returned("transition_model") =>
        /\ DOMAIN dist = DOMAIN corpus
        /\ \A q \in DOMAIN dist : dist[q][1] >= 0 /\ dist[q][2] > 0
        /\ RSum(dist) = <<1, 1>>

C1_Witness ==
    /\ Returned("transition_model")
    /\ Len0(corpus) = 3
    /\ Cardinality(corpus[page]) = 1
    /\ damping = <<1, 2>>

\* C2: with L > 0 links, a linked page gets (1-d)/N + d/L and any other page
\* (1-d)/N, so that linked pages get strictly more whenever d > 0; without
\* links every page gets 1/N.
C2_Reference ==
    Returned("transition_model") =>
        LET N == Len0(corpus)
            L == Cardinality(corpus[page])
            dn == damping[1]
            dd == damping[2]
        IN  \A q \in DOMAIN corpus :
              /\ q \in corpus[page] =>
                    /\ dist[q][1] * (dd * N * L) = dist[q][2] * ((dd - dn) * L + dn * N)
                    /\ \A r \in DOMAIN corpus \ corpus[page] :
                          dn > 0 => dist[r][1] * dist[q][2] < dist[q][1] * dist[r][2]
              /\ (L > 0 /\ q \notin corpus[page]) =>
                    dist[q][1] * (dd * N) = dist[q][2] * (dd - dn)
              /\ L = 0 => dist[q][1] * N = dist[q][2]

C2_Witness ==
    /\ Returned("transition_model")
    /\ \E q \in corpus[page] : \E r \in DOMAIN corpus \ corpus[page] :
          RLess(dist[r], dist[q]) /\ RLess(RZero, dist[r])

RECURSIVE Visits(_, _)
Visits(f, k) == IF k = 0 THEN 0 ELSE Visits(f, k - 1) + f[k]

\* C3: sample_pagerank records n visits: the counters sum to n and the
\* returned ranks sum to 1 (for n = 1: the start page has rank 1).
C3_VisitsAreN ==
    Returned("sample_pagerank") =>
        /\ Visits(sample_ranks, Len0(corpus)) = n
        /\ RSum(ranks) = <<1, 1>>
        /\ n = 1 => ranks[corpus_page] = <<1, 1>>

ValidArgs ==
    /\ Len0(corpus) > 0
    /\ ValidDamping(damping)
    /\ op = "sample_pagerank" => n >= 1

\* C4: on an empty corpus, a damping outside [0,1] or (sample_pagerank) n <= 0
\* an estimator ends in an error and returns no mapping.
C4_Rejects ==
    (op \in {"sample_pagerank", "iterate_pagerank"} /\ ~ValidArgs) => pc # "done"

\* C5: the mapping iterate_pagerank returns has one entry per page and its
\* values sum to 1 (within 1e-6).
C5_SumIsOne ==
    Returned("iterate_pagerank") =>
        /\ DOMAIN interate_rank = DOMAIN corpus
        /\ LET sum == ZSum(interate_rank)
               off == ZAbsDiff(sum, ZNat(den))
           IN  ~NLess(den, NMul(NMul(off, 1000), 1000))

\* |update(rank)[p] - rank[p]|, as a numerator over den * Scale, where update is
\* new_rank[p] = (1-d)/N + d * sum over q linking to p of rank[q]/L(q)
UpdateChange(p) ==
    ZAbsDiff(NewRank(corpus, damping, den, interate_rank, p),
             ZMul(interate_rank[p], Scale(corpus, damping)))

\* C6 as stated: applying the update rule once more to the returned mapping
\* changes every rank by at most 0.001.
C6_Idempotent ==
    Returned("iterate_pagerank") =>
        \A p \in DOMAIN corpus :
            ~NLess(NMul(den, Scale(corpus, damping)), NMul(UpdateChange(p), 1000))

\* C6 as amended: applying the update rule once more to the returned mapping
\* changes every rank by at most N * 0.001, N the number of pages.
C6_IdempotentWithinN ==
    Returned("iterate_pagerank") =>
        \A p \in DOMAIN corpus :
            ~NLess(NMul(NMul(den, Scale(corpus, damping)), Len0(corpus)),
                   NMul(UpdateChange(p), 1000))

C6_Witness ==
    /\ Returned("iterate_pagerank")
    /\ \E p \in DOMAIN corpus :
          NLess(NMul(den, Scale(corpus, damping)), NMul(UpdateChange(p), 1000))

\* C7 as stated: iterate_pagerank returns for every corpus and every damping
\* in [0,1] (a run the model cuts counts as returning).
Ended == pc \in {"done", "cut"}
C7_Terminates == <>Ended

\* C7 as amended: iterate_pagerank returns for every corpus and every damping
\* in [0,1).
BelowOne == damping[1] < damping[2]
HasReturned == pc = "done"
C7_TerminatesBelowOne == BelowOne ~> HasReturned

C7_Witness ==
    /\ Returned("iterate_pagerank")
    /\ damping = <<6, 7>>
    /\ Len0(corpus) = 4
    /\ \E p \in DOMAIN corpus : corpus[p] = {}
    /\ \E p \in DOMAIN corpus : interate_changes[p].m # <<>>

\* one pass in which every page is computed from the ranks before the pass
SnapshotPass(c, d, st) ==
    LET K == Scale(c, d)
        nr == [p \in DOMAIN c |-> NewRank(c, d, st.den, st.rank, p)]
    IN  Lowest([den |-> NMul(st.den, K),
                rank |-> nr,
                changes |-> [p \in DOMAIN c |->
                               Fin(ZAbsDiff(nr[p], ZMul(st.rank[p], K)))]])

\* C8: every pass computes every new rank from the ranks of the previous pass.
C8_FromSnapshot ==
    [][IterPass =>
        LET new == SnapshotPass(corpus, damping, State)
        IN  den' = new.den /\ interate_rank' = new.rank]_vars

\* C9: the first pass always runs; a further pass runs only when a change
\* recorded in the last pass exceeds 0.001, and then the function does not
\* return; it returns, with the ranks of the last pass, once every recorded
\* change is at most 0.001.
C9_LoopCondition ==
    [][(op = "iterate_pagerank" /\ pc = "loop") =>
        LET first == \A q \in DOMAIN corpus : interate_changes[q].inf
            over == {q \in DOMAIN corpus :
                        /\ ~interate_changes[q].inf
                        /\ NLess(den, NMul(interate_changes[q].m, 1000))}
        IN  /\ pc' = "pass" => (first \/ over # {})
            /\ pc' = "done" => /\ ~first
                               /\ over = {}
                               /\ \A q \in DOMAIN corpus : ~interate_changes[q].inf
            /\ pc' \in {"pass", "done"}
            /\ <<den, interate_rank, interate_changes>>' =
                   <<den, interate_rank, interate_changes>>]_vars

C9_Witness ==
    /\ Returned("iterate_pagerank")
    /\ Len0(corpus) = 3
    /\ \E q \in DOMAIN corpus : interate_changes[q].m # <<>>
    /\ damping = <<1, 1>>

\* C10: in the update of iterate_pagerank a page q without links adds rank[q]/N
\* to every page, itself included, and a page q with L links adds rank[q]/L to
\* the pages it links to; transition_model(corpus, q, d)[p] is (1-d)/N + d * that
\* share when q has links, and that share, 1/N, when it has none.
C10_SameConvention ==
    Returned("transition_model") =>
        LET N == Len0(corpus)
            M == LCMTo(N)
            L == Cardinality(corpus[page])
            unit == [q \in DOMAIN corpus |-> IF q = page THEN ZNat(NOne) ELSE ZNat(<<>>)]
            share(p) == IF L = 0 THEN Rat(1, N)
                        ELSE IF p \in corpus[page] THEN Rat(1, L) ELSE RZero
        IN  \A p \in DOMAIN corpus :
              /\ LinkCounterTo(corpus, unit, p, N) =
                    ZNat(Trim(<<(M * share(p)[1]) \div share(p)[2]>>))
              /\ dist[p] = IF L = 0 THEN share(p)
                           ELSE RAdd(RDivInt(RSub(ROne, damping), N),
                                     RMul(damping, share(p)))

C10_Witness ==
    /\ Returned("transition_model")
    /\ corpus[page] = {}
    /\ Len0(corpus) = 3
    /\ damping = <<6, 7>>

====
